---- MODULE Spec2Model ----
(***************************************************************************)
(* A model of weekly_metrics.py: the ride metrics engine (record           *)
(* extraction, rolling average, normalized power, non-coasting average,    *)
(* left-hold energy integration), the per-ride analysis, and the weekly    *)
(* aggregation driven by summarize_directory.                              *)
(*                                                                         *)
(* Numbers.  Python floats are modelled by exact real numbers, but for the  *)
(* weekly energy total, the one result that is computed in an order the    *)
(* run decides: that sum is done in binary floating point (see below).  A  *)
(* fraction is a reduced pair <<n, d>> with d > 0.  A real is <<q, surds>>: the      *)
(* fraction q plus the sum of its surds, each <<c, r>> standing for         *)
(* c * r^(1/4) with c a non-zero fraction and r a positive fraction that   *)
(* is not a perfect fourth power, listed by ascending radicand, one per    *)
(* radicand.  Fourth roots are the only irrationals the program produces   *)
(* (in _normalized_power), and it only adds them and divides them by       *)
(* integers afterwards.  Radicands are not reduced to a fourth-power-free  *)
(* form, so equal models denote equal numbers but not conversely.          *)
(* Rounding is modelled where a ride's energy becomes a float and in the   *)
(* additions of the weekly total, not in the other operations, whose       *)
(* order of evaluation is fixed by their input.                            *)
(*                                                                         *)
(* Optional values (Python's None) are sequences: <<>> is None and <<v>>   *)
(* is the value v.                                                         *)
(*                                                                         *)
(* A timestamp (a datetime) is a record [y, mo, d, s]: the proleptic       *)
(* Gregorian date and the second of the day.                               *)
(***************************************************************************)
EXTENDS Integers, Sequences, FiniteSets

(***************************************************************************)
(* Exact arithmetic                                                        *)
(***************************************************************************)
Abs(x) == IF x < 0 THEN -x ELSE x

RECURSIVE GCD(_, _)
GCD(a, b) == IF b = 0 THEN a ELSE GCD(b, a % b)

\* The reduced fraction n/d (d > 0).
Frac(n, d) ==
    LET g == GCD(Abs(n), d)
    IN  IF g = 0 THEN <<0, 1>> ELSE <<n \div g, d \div g>>

FracAdd(a, b) ==
    LET g == GCD(a[2], b[2])
        l == (a[2] \div g) * b[2]
    IN  Frac(a[1] * (l \div a[2]) + b[1] * (l \div b[2]), l)

FracMul(a, b) == Frac(a[1] * b[1], a[2] * b[2])

\* The order in which the surds of a real are listed (by numerator, then by
\* denominator, of the radicand); it carries no numerical meaning.
FracBefore(a, b) == a[1] < b[1] \/ (a[1] = b[1] /\ a[2] < b[2])

\* The real number n/d.
Real(n, d) == <<Frac(n, d), <<>>>>

Zero == Real(0, 1)

\* float(power): an integral reading becomes a real number.
FloatOf(p) == Real(p, 1)

\* The surds of a + b: like radicands are collected, a surd whose coefficient
\* vanishes is dropped.
RECURSIVE MergeSurds(_, _)
MergeSurds(s, t) ==
    IF s = <<>> THEN t
    ELSE IF t = <<>> THEN s
    ELSE IF Head(s)[2] = Head(t)[2]
         THEN LET c    == FracAdd(Head(s)[1], Head(t)[1])
                  rest == MergeSurds(Tail(s), Tail(t))
              IN  IF c[1] = 0 THEN rest ELSE <<<<c, Head(s)[2]>>>> \o rest
    ELSE IF FracBefore(Head(s)[2], Head(t)[2])
         THEN <<Head(s)>> \o MergeSurds(Tail(s), t)
         ELSE <<Head(t)>> \o MergeSurds(s, Tail(t))

\* The surds of k * a for a fraction k.
ScaleSurds(s, k) ==
    IF k[1] = 0 THEN <<>> ELSE [i \in 1..Len(s) |-> <<FracMul(s[i][1], k), s[i][2]>>]

\* a + b
RealAdd(a, b) == <<FracAdd(a[1], b[1]), MergeSurds(a[2], b[2])>>

\* a * k for an integer k
RealMulInt(a, k) == <<FracMul(a[1], <<k, 1>>), ScaleSurds(a[2], <<k, 1>>)>>

\* a / k for an integer k > 0
RealDivInt(a, k) == <<FracMul(a[1], <<1, k>>), ScaleSurds(a[2], <<1, k>>)>>

\* a > 0, for a real none of whose parts is negative or all of whose parts are
\* (the program asks it of power readings, which are rational).
RealPos(a) ==
    /\ a[1][1] >= 0
    /\ \A i \in DOMAIN a[2] : a[2][i][1][1] > 0
    /\ a # Zero

\* The sum of values[lo..hi].  Exact addition is associative, so the halves
\* may be summed apart; the source adds left to right.
RECURSIVE SumRange(_, _, _)
SumRange(values, lo, hi) ==
    IF lo > hi THEN Zero
    ELSE IF lo = hi THEN values[lo]
    ELSE LET mid == (lo + hi) \div 2
         IN  RealAdd(SumRange(values, lo, mid), SumRange(values, mid + 1, hi))

\* sum(values) over a sequence of reals whose order is the input's (the
\* window slice of the rolling average), and the exact sum inside
\* statistics.mean, which rounds once at the end whatever the order.
RealSum(values) == SumRange(values, 1, Len(values))

\* statistics.mean(values) for a non-empty sequence.
mean(values) == RealDivInt(RealSum(values), Len(values))

\* value ** 4, for a rational value or a single surd c * r^(1/4): the program
\* raises only averages of power readings, which are rational.
Pow4(a) ==
    IF a[2] = <<>>
    THEN LET sq == FracMul(a[1], a[1]) IN <<FracMul(sq, sq), <<>>>>
    ELSE LET c  == a[2][1][1]
             sq == FracMul(c, c)
         IN  <<FracMul(FracMul(sq, sq), a[2][1][2]), <<>>>>

\* The integer fourth root of k when k is a perfect fourth power, else -1.
IntRoot4(k) ==
    IF \E x \in 0..215 : x * x * x * x = k
    THEN CHOOSE x \in 0..215 : x * x * x * x = k
    ELSE -1

\* a ** 0.25 for a rational a >= 0 (the mean of fourth powers of rationals):
\* rational when a is a perfect fourth power, else the surd 1 * a^(1/4).
Root4(a) ==
    IF IntRoot4(a[1][1]) >= 0 /\ IntRoot4(a[1][2]) >= 0
    THEN Real(IntRoot4(a[1][1]), IntRoot4(a[1][2]))
    ELSE <<<<0, 1>>, <<<<<<1, 1>>, a[1]>>>>>>

(***************************************************************************)
(* Binary floating point, for the one sum whose order varies               *)
(*                                                                         *)
(* sum(...) at line 116 adds the rides' energies left to right, in the     *)
(* order of the group, rounding after every addition, so its result        *)
(* depends on that order.  It is computed here as IEEE 754 binary64 does:  *)
(* a float is [neg, m, e], the number (-1)^neg * m * 2^e, with m a natural *)
(* of exactly Precision bits, or m = 0 for zero; a natural is the          *)
(* sequence of its digits in base Base, lowest first, without leading zero *)
(* digits.  Subnormals, infinities and the sign of zero are out of range.  *)
(***************************************************************************)
LimbBits == 15

Base == 32768

Precision == 53

\* 2^k, for k up to 30.
RECURSIVE Pow2(_)
Pow2(k) == IF k = 0 THEN 1 ELSE 2 * Pow2(k - 1)

RECURSIVE BigOfInt(_)
BigOfInt(n) == IF n = 0 THEN <<>> ELSE <<n % Base>> \o BigOfInt(n \div Base)

RECURSIVE BigTrim(_)
BigTrim(a) ==
    IF a # <<>> /\ a[Len(a)] = 0 THEN BigTrim(SubSeq(a, 1, Len(a) - 1)) ELSE a

RECURSIVE BigAddCarry(_, _, _)
BigAddCarry(a, b, carry) ==
    IF a = <<>> /\ b = <<>> THEN BigOfInt(carry)
    ELSE LET x == IF a = <<>> THEN 0 ELSE Head(a)
             y == IF b = <<>> THEN 0 ELSE Head(b)
             t == x + y + carry
         IN  <<t % Base>> \o BigAddCarry(IF a = <<>> THEN <<>> ELSE Tail(a),
                                         IF b = <<>> THEN <<>> ELSE Tail(b),
                                         t \div Base)

BigAdd(a, b) == BigAddCarry(a, b, 0)

RECURSIVE BigSubBorrow(_, _, _)
BigSubBorrow(a, b, borrow) ==
    IF a = <<>> THEN <<>>
    ELSE LET y == IF b = <<>> THEN 0 ELSE Head(b)
             t == Head(a) - y - borrow
         IN  <<(t + Base) % Base>> \o BigSubBorrow(Tail(a),
                                                   IF b = <<>> THEN <<>> ELSE Tail(b),
                                                   IF t < 0 THEN 1 ELSE 0)

\* a - b, for a >= b.
BigSub(a, b) == BigTrim(BigSubBorrow(a, b, 0))

RECURSIVE BigMulCarry(_, _, _)
BigMulCarry(a, k, carry) ==
    IF a = <<>> THEN BigOfInt(carry)
    ELSE LET t == Head(a) * k + carry
         IN  <<t % Base>> \o BigMulCarry(Tail(a), k, t \div Base)

\* a * k, for 0 <= k <= Base.
BigMulSmall(a, k) == IF k = 0 THEN <<>> ELSE BigMulCarry(a, k, 0)

\* Quotient (untrimmed) and remainder of a by k, for 0 < k < 2 * Base.
RECURSIVE BigDivRem(_, _)
BigDivRem(a, k) ==
    IF a = <<>> THEN [q |-> <<>>, r |-> 0]
    ELSE LET high == BigDivRem(Tail(a), k)
             t    == high.r * Base + Head(a)
         IN  [q |-> <<t \div k>> \o high.q, r |-> t % k]

\* a * 2^s
BigShl(a, s) ==
    IF a = <<>> THEN <<>>
    ELSE [i \in 1..(s \div LimbBits) |-> 0] \o BigMulSmall(a, Pow2(s % LimbBits))

\* floor(a / 2^s)
BigShr(a, s) ==
    LET whole == s \div LimbBits
        kept  == IF whole >= Len(a) THEN <<>> ELSE SubSeq(a, whole + 1, Len(a))
    IN  BigTrim(BigDivRem(kept, Pow2(s % LimbBits)).q)

\* The number of bits of a.
BigBitLen(a) ==
    IF a = <<>> THEN 0
    ELSE LimbBits * (Len(a) - 1)
         + (CHOOSE k \in 1..LimbBits : Pow2(k - 1) <= a[Len(a)] /\ a[Len(a)] < Pow2(k))

BigOdd(a) == a # <<>> /\ a[1] % 2 = 1

\* a < b
BigLess(a, b) ==
    \/ Len(a) < Len(b)
    \/ /\ Len(a) = Len(b)
       /\ \E i \in DOMAIN a : a[i] < b[i] /\ \A j \in (i + 1)..Len(a) : a[j] = b[j]

FloatZero == [neg |-> FALSE, m |-> <<>>, e |-> 0]

\* The float nearest to (-1)^neg * (n + f) * 2^e, ties to even, where f is a
\* fraction in [0, 1) that is non-zero exactly when sticky; n has more than
\* Precision + 1 bits when sticky.
RoundToFloat(neg, n, e, sticky) ==
    LET bits == BigBitLen(n)
    IN  IF n = <<>> THEN FloatZero
        ELSE IF bits <= Precision
        THEN [neg |-> neg, m |-> BigShl(n, Precision - bits), e |-> e - (Precision - bits)]
        ELSE LET s       == bits - Precision
                 q       == BigShr(n, s)
                 t       == BigShr(n, s - 1)
                 half    == BigOdd(t)
                 inexact == sticky \/ BigShl(t, s - 1) # n
                 up      == half /\ (inexact \/ BigOdd(q))
                 m       == IF up THEN BigAdd(q, <<1>>) ELSE q
             IN  IF BigBitLen(m) > Precision
                 THEN [neg |-> neg, m |-> BigShr(m, 1), e |-> e + s + 1]
                 ELSE [neg |-> neg, m |-> m, e |-> e + s]

\* float + float
FloatAdd(x, y) ==
    IF x.m = <<>> THEN y
    ELSE IF y.m = <<>> THEN x
    ELSE LET e  == IF x.e < y.e THEN x.e ELSE y.e
             xm == BigShl(x.m, x.e - e)
             ym == BigShl(y.m, y.e - e)
         IN  IF x.neg = y.neg THEN RoundToFloat(x.neg, BigAdd(xm, ym), e, FALSE)
             ELSE IF xm = ym THEN FloatZero
             ELSE IF BigLess(ym, xm) THEN RoundToFloat(x.neg, BigSub(xm, ym), e, FALSE)
             ELSE RoundToFloat(y.neg, BigSub(ym, xm), e, FALSE)

\* The float that a rational real is held as: the nearest one.  (A ride's
\* total_kj is energy_joules / 1000.0 with energy_joules a whole number, one
\* correctly rounded division; the denominator is below 2 * Base.)
ToFloat(a) ==
    LET n    == Abs(a[1][1])
        d    == a[1][2]
        quot == BigDivRem(BigShl(BigOfInt(n), 6 * LimbBits), d)
    IN  RoundToFloat(a[1][1] < 0, BigTrim(quot.q), -(6 * LimbBits), quot.r # 0)

\* sum(values) over floats: from 0, left to right, rounding every addition.
RECURSIVE FloatSum(_)
FloatSum(values) ==
    IF values = <<>> THEN FloatZero
    ELSE FloatAdd(FloatSum(SubSeq(values, 1, Len(values) - 1)), ToFloat(values[Len(values)]))

(***************************************************************************)
(* datetime: ordinals, differences, ordering and the ISO calendar          *)
(***************************************************************************)
IsLeap(y) == y % 4 = 0 /\ (y % 100 # 0 \/ y % 400 = 0)

DaysBeforeYear(y) ==
    LET p == y - 1
    IN  p * 365 + (p \div 4) - (p \div 100) + (p \div 400)

DaysInMonth(y, m) ==
    IF m = 2 THEN (IF IsLeap(y) THEN 29 ELSE 28)
    ELSE IF m \in {4, 6, 9, 11} THEN 30 ELSE 31

RECURSIVE DaysBeforeMonth(_, _)
DaysBeforeMonth(y, m) ==
    IF m = 1 THEN 0 ELSE DaysBeforeMonth(y, m - 1) + DaysInMonth(y, m - 1)

\* date.toordinal(): 1 is 0001-01-01.
Ymd2Ord(y, m, d) == DaysBeforeYear(y) + DaysBeforeMonth(y, m) + d

ToOrdinal(t) == Ymd2Ord(t.y, t.mo, t.d)

\* t1 < t2 on datetimes.
TsLess(t1, t2) ==
    \/ ToOrdinal(t1) < ToOrdinal(t2)
    \/ ToOrdinal(t1) = ToOrdinal(t2) /\ t1.s < t2.s

\* (t2 - t1).total_seconds()
TotalSeconds(t2, t1) == (ToOrdinal(t2) - ToOrdinal(t1)) * 86400 + (t2.s - t1.s)

\* The ordinal of the Monday of ISO week 1 of year y.
IsoWeek1Monday(y) ==
    LET firstday     == Ymd2Ord(y, 1, 1)
        firstweekday == (firstday + 6) % 7
        week1monday  == firstday - firstweekday
    IN  IF firstweekday > 3 THEN week1monday + 7 ELSE week1monday

\* datetime.isocalendar(): <<ISO year, ISO week, ISO weekday>>.
IsoCalendar(t) ==
    LET today == ToOrdinal(t)
        off   == today - IsoWeek1Monday(t.y)
        week  == off \div 7
        day   == off % 7
    IN  IF week < 0
        THEN LET off2 == today - IsoWeek1Monday(t.y - 1)
             IN  <<t.y - 1, (off2 \div 7) + 1, (off2 % 7) + 1>>
        ELSE IF week >= 52 /\ today >= IsoWeek1Monday(t.y + 1)
             THEN <<t.y + 1, 1, day + 1>>
             ELSE <<t.y, week + 1, day + 1>>

(***************************************************************************)
(* Record Extractor                                                        *)
(***************************************************************************)
\* A decoded message: the values of its timestamp and power fields, each
\* absent (<<>>) or present (<<v>>); other fields are never read.
Message(timestamp, power) == [timestamp |-> timestamp, power |-> power]

\* A variant that reads a missing power as 0 instead of dropping the message.
CollectRecords_power_default(messages) ==
    LET kept == SelectSeq(messages, LAMBDA data : data.timestamp # <<>>)
    IN  [i \in 1..Len(kept) |->
            <<kept[i].timestamp[1],
              FloatOf(IF kept[i].power = <<>> THEN 0 ELSE kept[i].power[1])>>]

\* The loop of _extract_records: the (timestamp, float(power)) pairs of the
\* messages that have both fields, in message order.
CollectRecords(messages) ==
    LET kept == SelectSeq(messages,
                          LAMBDA data : ~(data.timestamp = <<>> \/ data.power = <<>>))
    IN  [i \in 1..Len(kept) |-> <<kept[i].timestamp[1], FloatOf(kept[i].power[1])>>]

\* sorted(records, key=lambda item: item[0]): stable, by timestamp alone.  A
\* record's place is one past the number of records that go before it: those
\* of an earlier timestamp, and those of the same timestamp that precede it in
\* the list.  (Appending <<>> changes no sequence; it has the places and the
\* result computed once, as lists.)
SortedByTimestamp(records) ==
    LET n == Len(records)
        GoesBefore(j, i) ==
            \/ TsLess(records[j][1], records[i][1])
            \/ j < i /\ ~TsLess(records[i][1], records[j][1])
        place == [i \in 1..n |-> 1 + Cardinality({j \in 1..n : GoesBefore(j, i)})] \o <<>>
    IN  [k \in 1..n |-> records[CHOOSE i \in 1..n : place[i] = k]] \o <<>>

\* _extract_records on a file the decoder can parse.
_extract_records(messages) == SortedByTimestamp(CollectRecords(messages))

(***************************************************************************)
(* Metrics Calculator                                                      *)
(***************************************************************************)
Window == 30

\* The indices (0-based, as in the source) at which the generator yields: those
\* the "start < 0: continue" test lets through.
YieldingIndices(values, window) ==
    {idx \in 0..(Len(values) - 1) : ~(idx - window + 1 < 0)}

\* A variant that yields at every index, averaging the samples there are over
\* the full window.
_rolling_average_partial_windows(values, window) ==
    [j \in 1..Len(values) |->
        LET idx   == j - 1
            start == IF idx - window + 1 < 0 THEN 0 ELSE idx - window + 1
        IN  RealDivInt(RealSum(SubSeq(values, start + 1, idx + 1)), window)]

\* The values yielded, in the order of the loop.
_rolling_average(values, window) ==
    LET yields == YieldingIndices(values, window)
        nth(j) == CHOOSE idx \in yields : Cardinality({k \in yields : k < idx}) = j - 1
    IN  [j \in 1..Cardinality(yields) |->
            LET idx   == nth(j)
                start == idx - window + 1
            IN  RealDivInt(RealSum(SubSeq(values, start + 1, idx + 1)), window)]

\* [value**4 for value in rolling_avgs]
Pow4All(values) == [i \in 1..Len(values) |-> Pow4(values[i])]

\* A variant without the plain-average fallback.
_normalized_power_zero_fallback(powers) ==
    LET rolling_avgs == _rolling_average(powers, Window)
    IN  IF rolling_avgs = <<>>
        THEN Zero
        ELSE Root4(mean(Pow4All(rolling_avgs)))

_normalized_power(powers) ==
    LET rolling_avgs == _rolling_average(powers, Window)
    IN  IF rolling_avgs = <<>>
        THEN (IF powers # <<>> THEN mean(powers) ELSE Zero)
        ELSE Root4(mean(Pow4All(rolling_avgs)))

_noncoasting_average(powers) ==
    LET nonzero == SelectSeq(powers, RealPos)
    IN  IF nonzero # <<>> THEN mean(nonzero) ELSE Zero

\* What each turn of the loop over zip(records, records[1:]) adds to
\* energy_joules: nothing when delta <= 0, else power_prev * delta.
PairJoules(records) ==
    [i \in 1..(Len(records) - 1) |->
        LET delta == TotalSeconds(records[i + 1][1], records[i][1])
        IN  IF delta <= 0 THEN Zero ELSE RealMulInt(records[i][2], delta)]

\* A variant that integrates by the true trapezoid rule.
_ride_energy_kj_trapezoid(records) ==
    LET joules == [i \in 1..(Len(records) - 1) |->
                      LET delta == TotalSeconds(records[i + 1][1], records[i][1])
                      IN  IF delta <= 0 THEN Zero
                          ELSE RealDivInt(RealMulInt(RealAdd(records[i][2], records[i + 1][2]),
                                                     delta), 2)]
    IN  IF Len(records) < 2 THEN Zero ELSE RealDivInt(RealSum(joules), 1000)

_ride_energy_kj(records) ==
    IF Len(records) < 2 THEN Zero
    ELSE RealDivInt(RealSum(PairJoules(records)), 1000)

(***************************************************************************)
(* Ride Analyzer                                                           *)
(***************************************************************************)
\* analyze_ride on a file the decoder can parse: <<>> (None) or <<metrics>>.
analyze_ride(name, messages) ==
    LET records == _extract_records(messages)
        powers  == [i \in 1..Len(records) |-> records[i][2]]
    IN  IF records = <<>> THEN <<>>
        ELSE << [file                  |-> name,
                 start_time            |-> records[1][1],
                 avg_watts             |-> mean(powers),
                 avg_np                |-> _normalized_power(powers),
                 avg_noncoasting_watts |-> _noncoasting_average(powers),
                 total_kj              |-> _ride_energy_kj(records)] >>

(***************************************************************************)
(* Weekly Aggregator                                                       *)
(***************************************************************************)
\* A variant that pairs the ISO week with the calendar year.
WeekKey_calendar_year(ride) ==
    <<ride.start_time.y, IsoCalendar(ride.start_time)[2]>>

\* The key under which a ride is grouped.
WeekKey(ride) ==
    LET iso_calendar == IsoCalendar(ride.start_time)
    IN  <<iso_calendar[1], iso_calendar[2]>>

\* grouped[week_key].append(ride) on an insertion-ordered dict, kept as a
\* sequence of <<key, rides>> items.
RECURSIVE DictAppend(_, _, _)
DictAppend(grouped, week_key, ride) ==
    IF grouped = <<>> THEN << <<week_key, <<ride>>>> >>
    ELSE IF Head(grouped)[1] = week_key
         THEN << <<week_key, Append(Head(grouped)[2], ride)>> >> \o Tail(grouped)
         ELSE <<Head(grouped)>> \o DictAppend(Tail(grouped), week_key, ride)

RECURSIVE group_by_week(_)
group_by_week(rides) ==
    IF rides = <<>> THEN <<>>
    ELSE LET ride == rides[Len(rides)]
         IN  DictAppend(group_by_week(SubSeq(rides, 1, Len(rides) - 1)),
                        WeekKey(ride), ride)

\* A variant that compares the week before the year.
KeyLess_week_first(k1, k2) == k1[2] < k2[2] \/ (k1[2] = k2[2] /\ k1[1] < k2[1])

\* Tuple comparison of two week keys.
KeyLess(k1, k2) == k1[1] < k2[1] \/ (k1[1] = k2[1] /\ k1[2] < k2[2])

RECURSIVE InsertByKey(_, _)
InsertByKey(sorted, item) ==
    IF sorted = <<>> THEN <<item>>
    ELSE IF KeyLess(item[1], Head(sorted)[1])
         THEN <<item>> \o sorted
         ELSE <<Head(sorted)>> \o InsertByKey(Tail(sorted), item)

\* A variant that leaves the items in the dict's insertion order.
SortedItems_insertion_order(items) == items

\* sorted(grouped.items()): the keys are distinct, so the key decides.
RECURSIVE SortedItems(_)
SortedItems(items) ==
    IF items = <<>> THEN <<>>
    ELSE InsertByKey(SortedItems(SubSeq(items, 1, Len(items) - 1)),
                     items[Len(items)])

_mean(values) == IF values # <<>> THEN mean(values) ELSE Zero

\* Strings are sequences of one-character strings.
DigitChar(d) == <<"0", "1", "2", "3", "4", "5", "6", "7", "8", "9">>[d + 1]

\* str(n) for n >= 0.
RECURSIVE Str(_)
Str(n) == IF n < 10 THEN <<DigitChar(n)>> ELSE Str(n \div 10) \o <<DigitChar(n % 10)>>

\* f"{n:02d}" for n >= 0.
Pad02(n) == IF n < 10 THEN <<"0">> \o Str(n) ELSE Str(n)

\* f"{week_key[0]}-W{week_key[1]:02d}"
WeekLabel(week_key) == Str(week_key[1]) \o <<"-", "W">> \o Pad02(week_key[2])

Field(rides, f) == [i \in 1..Len(rides) |-> rides[i][f]]

\* A variant that averages the energy like the other fields.
summarize_week_mean_kj(week_key, rides) ==
    [week                  |-> WeekLabel(week_key),
     avg_watts             |-> _mean(Field(rides, "avg_watts")),
     avg_np                |-> _mean(Field(rides, "avg_np")),
     avg_noncoasting_watts |-> _mean(Field(rides, "avg_noncoasting_watts")),
     ride_count            |-> Len(rides),
     total_kj              |-> ToFloat(_mean(Field(rides, "total_kj")))]

\* The averages are statistics.mean's; total_kj is the builtin sum's: the
\* rides' energies as floats, added in the order of the group.
summarize_week(week_key, rides) ==
    [week                  |-> WeekLabel(week_key),
     avg_watts             |-> _mean(Field(rides, "avg_watts")),
     avg_np                |-> _mean(Field(rides, "avg_np")),
     avg_noncoasting_watts |-> _mean(Field(rides, "avg_noncoasting_watts")),
     ride_count            |-> Len(rides),
     total_kj              |-> FloatSum(Field(rides, "total_kj"))]

\* Group, sort the items, summarize each.
WeeklySummaries(rides) ==
    LET items == SortedItems(group_by_week(rides))
    IN  [i \in 1..Len(items) |-> summarize_week(items[i][1], items[i][2])]

(***************************************************************************)
(* Summary Sink                                                            *)
(***************************************************************************)
Fieldnames ==
    <<"week", "avg_watts", "avg_np", "avg_noncoasting_watts", "ride_count", "total_kj">>

\* A path is the sequence of its components: <<"output", "weekly_summary.csv">>
\* is output/weekly_summary.csv.
\* os.path.dirname(path): everything before the last component, '' (<<>>) for
\* a path of one component.
Dirname(path) == SubSeq(path, 1, Len(path) - 1)

\* The regular files that exist where the run takes place; every other path
\* is a directory or can be created as one.
RegularFiles == {<<"notes.txt">>}

\* os.makedirs(name, exist_ok=True): <<>> when it returns, else the exception
\* it raises.
makedirs(name) ==
    IF name = <<>> THEN <<"FileNotFoundError">>
    ELSE IF name \in RegularFiles THEN <<"FileExistsError">>
    ELSE IF \E k \in 1..(Len(name) - 1) : SubSeq(name, 1, k) \in RegularFiles
         THEN <<"NotADirectoryError">>
         ELSE <<>>

\* write_summary_csv: the exception that leaves it, if any, and the file it
\* leaves, if any: the header, then one line per row.
write_summary_csv(summary, output_path) ==
    LET raised == makedirs(Dirname(output_path))
    IN  IF raised # <<>>
        THEN [raised |-> raised, file |-> <<>>]
        ELSE [raised |-> <<>>,
              file   |-> << <<Fieldnames>> \o
                            [i \in 1..Len(summary) |->
                                [j \in 1..Len(Fieldnames) |-> summary[i][Fieldnames[j]]]] >>]

(***************************************************************************)
(* State                                                                   *)
(***************************************************************************)
VARIABLES
    pc,                \* where the run is
    fit_files,         \* the directory's .fit files in lexicographic order
    idx,               \* how many of them the loop of summarize_directory has passed
    pending,           \* fan-out/fan-in variant: files whose analysis is not collected
    rides,             \* the Ride Records collected so far
    weekly_summaries,  \* what summarize_directory returns
    csv_file,          \* <<>> until written, then <<the lines written>>
    exception,         \* <<>>, or <<the exception that left summarize_directory>>
    stream,            \* one session's decoded messages
    reordered,         \* the same messages in another order
    extracted,         \* <<>> or the pair of Sample Sequences of stream and reordered
    samples,           \* a sequence of (timestamp, power) records given to _ride_energy_kj
    total_kj,          \* <<>> or the energy results (of analyze_ride: each <<>> or <<kJ>>)
    powers,            \* a power sequence given to the rolling average / normalized power
    rolling_avgs,      \* <<>> or <<list(_rolling_average(powers, 30))>>
    normalized         \* <<>> or <<_normalized_power(powers)>>

vars == <<pc, fit_files, idx, pending, rides, weekly_summaries, csv_file, exception,
          stream, reordered, extracted, samples, total_kj,
          powers, rolling_avgs, normalized>>

dirVars    == <<fit_files, idx, pending, rides, weekly_summaries, csv_file, exception>>
streamVars == <<stream, reordered, extracted>>
energyVars == <<samples, total_kj>>
powerVars  == <<powers, rolling_avgs, normalized>>

(***************************************************************************)
(* Bounds and input sets                                                   *)
(***************************************************************************)
MaxFiles    == 3    \* files in the directory
MaxParFiles == 3    \* files analysed concurrently
MaxMsgs     == 3    \* messages in a session stream
MaxSamples  == 3    \* records given to the energy integration
MaxLen      == 31   \* samples given to the rolling average

Ts(y, mo, d, s) == [y |-> y, mo |-> mo, d |-> d, s |-> s]

\* Start-of-ride instants: two days of ISO week 2024-W05 in different months,
\* and the Monday 2024-12-30, which is in ISO week 2025-W01.
StartTimes == {Ts(2024, 1, 29, 0), Ts(2024, 2, 2, 0), Ts(2024, 12, 30, 0)}

\* t plus k seconds, for k below a day.
Later(t, k) ==
    IF t.s + k < 86400 THEN Ts(t.y, t.mo, t.d, t.s + k)
    ELSE IF t.d < DaysInMonth(t.y, t.mo) THEN Ts(t.y, t.mo, t.d + 1, t.s + k - 86400)
    ELSE IF t.mo < 12 THEN Ts(t.y, t.mo + 1, 1, t.s + k - 86400)
    ELSE Ts(t.y + 1, 1, 1, t.s + k - 86400)

\* The message streams of a ride that starts at t: a steady ride, and an
\* out-of-order ride with an incomplete message.
RideShapes(t) ==
    { << Message(<<t>>, <<150>>), Message(<<Later(t, 2000)>>, <<150>>) >>,
      << Message(<<Later(t, 2000)>>, <<165>>), Message(<<t>>, <<175>>),
         Message(<<>>, <<90>>) >> }

\* Two more message streams, relative to the instant t: one with no usable
\* message, and a ride with coasting and a repeated timestamp.
OtherShapes(t) ==
    { << Message(<<>>, <<150>>), Message(<<t>>, <<>>) >>,
      << Message(<<Later(t, 1)>>, <<0>>), Message(<<t>>, <<200>>),
         Message(<<Later(t, 1)>>, <<100>>) >> }

\* A file: whether the decoder fails on it, and the messages it decodes to.
FitFile(corrupt, messages) == [corrupt |-> corrupt, messages |-> messages]

ReadableFiles ==
    {FitFile(FALSE, m) : m \in UNION {RideShapes(t) : t \in StartTimes}
                                  \cup OtherShapes(Ts(2024, 2, 2, 0))}

FileSet == ReadableFiles \cup {FitFile(TRUE, <<>>)}

SeqsUpTo(S, n) == UNION {[1..k -> S] : k \in 0..n}

\* A ride long enough for the rolling average to yield, so that its normalized
\* power is a fourth root: 30 samples at 1 W and one at 2 W, a second apart,
\* from 2024-12-30.
LongRide ==
    FitFile(FALSE, [i \in 1..31 |->
                       Message(<<Later(Ts(2024, 12, 30, 0), i - 1)>>,
                               <<IF i <= 30 THEN 1 ELSE 2>>)])

\* Directories that end with the long ride: alone, after one or two of the
\* files of S, or after one of them and a copy of itself.  (300 kJ, 0.03 kJ
\* and 0.03 kJ add up to 300.05999999999995 in that order and to 300.06 with
\* the 300 last.)
LongRideDirectories(S) ==
    {<<LongRide>>} \cup {<<f, LongRide>> : f \in S} \cup {<<f, g, LongRide>> : f \in S, g \in S}
        \cup {<<f, LongRide, LongRide>> : f \in S}

\* The directories of the sequential run: up to MaxFiles files that decode to
\* short sessions or do not decode, and the long ride after short rides of
\* its own week and of 2024-W05.
Directories ==
    SeqsUpTo(FileSet, MaxFiles)
        \cup LongRideDirectories({f \in ReadableFiles :
                 \E i \in DOMAIN f.messages :
                     f.messages[i].timestamp \in {<<Ts(2024, 1, 29, 0)>>, <<Ts(2024, 12, 30, 0)>>}})

\* The files given to the fan-out/fan-in variant, all decodable: the rides
\* without coasting, of the out-of-order ones that of 2024-12-30 only, and one
\* file without a usable message.
ParFileSet ==
    {f \in ReadableFiles :
        \/ /\ \A i \in DOMAIN f.messages : f.messages[i].power \notin {<<>>, <<0>>}
           /\ f.messages[1].timestamp \notin {<<Later(Ts(2024, 1, 29, 0), 2000)>>,
                                              <<Later(Ts(2024, 2, 2, 0), 2000)>>}
        \/ \E i \in DOMAIN f.messages : f.messages[i].timestamp = <<Ts(2024, 2, 2, 0)>>
                                         /\ f.messages[i].power = <<>>}

\* The directories of the fan-out/fan-in variant: up to MaxParFiles of those
\* files, and the long ride with the rides of its own week.
ParDirectories ==
    SeqsUpTo(ParFileSet, MaxParFiles)
        \cup LongRideDirectories({f \in ParFileSet :
                 \E i \in DOMAIN f.messages :
                     f.messages[i].timestamp = <<Ts(2024, 12, 30, 0)>>})

\* Instants one second apart across midnight of 2024-12-29.
Instants == {Ts(2024, 12, 29, 86399), Ts(2024, 12, 30, 0), Ts(2024, 12, 30, 1)}

MessageSet ==
    {Message(t, p) : t \in {<<>>} \cup {<<i>> : i \in Instants},
                     p \in {<<>>, <<100>>, <<200>>}}

RecordSet == {<<t, FloatOf(p)>> : t \in Instants, p \in {0, 100, 200}}

Reorderings(seq) ==
    {[i \in 1..Len(seq) |-> seq[f[i]]] :
        f \in {g \in [1..Len(seq) -> 1..Len(seq)] :
                 \A i, j \in 1..Len(seq) : i # j => g[i] # g[j]}}

\* Output paths: the default of the command line, a path without a directory
\* part, and a path under a regular file.
OutputPaths ==
    { <<"output", "weekly_summary.csv">>,
      <<"summary.csv">>,
      <<"notes.txt", "summary.csv">> }

\* Power sequences of length n: a watts up to position k, b watts after it.
Watts == {0, 1, 2, 3}

StepSequence(n, k, a, b) == [i \in 1..n |-> FloatOf(IF i <= k THEN a ELSE b)]

PowerSequences ==
    {StepSequence(n, k, a, b) : n \in 0..MaxLen, k \in 0..MaxLen, a \in Watts, b \in Watts}

(***************************************************************************)
(* summarize_directory: the sequential run                                 *)
(***************************************************************************)
IdleStream == stream = <<>> /\ reordered = <<>> /\ extracted = <<>>
IdleEnergy == samples = <<>> /\ total_kj = <<>>
IdlePower  == powers = <<>> /\ rolling_avgs = <<>> /\ normalized = <<>>
IdleDir    == /\ fit_files = <<>> /\ idx = 0 /\ pending = {} /\ rides = <<>>
              /\ weekly_summaries = <<>> /\ csv_file = <<>> /\ exception = <<>>

\* The sorted list of .fit paths has been built, and no ride collected yet.
Init ==
    /\ pc = "loop"
    /\ fit_files \in Directories
    /\ idx = 0
    /\ pending = {}
    /\ rides = <<>>
    /\ weekly_summaries = <<>>
    /\ csv_file = <<>>
    /\ exception = <<>>
    /\ IdleStream /\ IdleEnergy /\ IdlePower

\* One turn of the loop, on a file that yields a Ride Record.
AnalyzeRide ==
    /\ pc = "loop"
    /\ idx < Len(fit_files)
    /\ ~fit_files[idx + 1].corrupt
    /\ LET ride_metrics == analyze_ride(idx + 1, fit_files[idx + 1].messages)
       IN  /\ ride_metrics # <<>>
           /\ rides' = Append(rides, ride_metrics[1])
    /\ idx' = idx + 1
    /\ UNCHANGED <<pc, fit_files, pending, weekly_summaries, csv_file, exception>>
    /\ UNCHANGED <<streamVars, energyVars, powerVars>>

\* One turn of the loop, on a file for which analyze_ride returns None.
SkipEmptyRide ==
    /\ pc = "loop"
    /\ idx < Len(fit_files)
    /\ ~fit_files[idx + 1].corrupt
    /\ analyze_ride(idx + 1, fit_files[idx + 1].messages) = <<>>
    /\ idx' = idx + 1
    /\ UNCHANGED <<pc, fit_files, pending, rides, weekly_summaries, csv_file, exception>>
    /\ UNCHANGED <<streamVars, energyVars, powerVars>>

\* A variant that catches the decoder's failure and goes on to the next file.
DecoderFailureSkipped ==
    /\ pc = "loop"
    /\ idx < Len(fit_files)
    /\ fit_files[idx + 1].corrupt
    /\ idx' = idx + 1
    /\ UNCHANGED <<pc, fit_files, pending, rides, weekly_summaries, csv_file, exception>>
    /\ UNCHANGED <<streamVars, energyVars, powerVars>>

\* The decoder raises inside _extract_records, nothing catches it, and
\* summarize_directory is left by the exception.
DecoderRaises ==
    /\ pc = "loop"
    /\ idx < Len(fit_files)
    /\ fit_files[idx + 1].corrupt
    /\ pc' = "raised"
    /\ exception' = <<"FitParseError">>
    /\ UNCHANGED <<fit_files, idx, pending, rides, weekly_summaries, csv_file>>
    /\ UNCHANGED <<streamVars, energyVars, powerVars>>

\* After the loop: group, sort, summarize, write, return.
Aggregate(output_path) ==
    /\ pc = "loop"
    /\ idx = Len(fit_files)
    /\ LET written == write_summary_csv(WeeklySummaries(rides), output_path)
       IN  /\ written.raised = <<>>
           /\ csv_file' = written.file
    /\ weekly_summaries' = WeeklySummaries(rides)
    /\ pc' = "done"
    /\ UNCHANGED <<fit_files, idx, pending, rides, exception>>
    /\ UNCHANGED <<streamVars, energyVars, powerVars>>

\* After the loop, write_summary_csv raises: nothing is written, nothing is
\* returned, and summarize_directory is left by the exception.
WriteRaises(output_path) ==
    /\ pc = "loop"
    /\ idx = Len(fit_files)
    /\ LET written == write_summary_csv(WeeklySummaries(rides), output_path)
       IN  /\ written.raised # <<>>
           /\ exception' = written.raised
    /\ pc' = "raised"
    /\ UNCHANGED <<fit_files, idx, pending, rides, weekly_summaries, csv_file>>
    /\ UNCHANGED <<streamVars, energyVars, powerVars>>

Next ==
    \/ AnalyzeRide
    \/ SkipEmptyRide
    \/ DecoderRaises
    \/ \E output_path \in OutputPaths : Aggregate(output_path)
    \/ \E output_path \in OutputPaths : WriteRaises(output_path)

Spec == Init /\ [][Next]_vars

(***************************************************************************)
(* The fan-out/fan-in variant: analyses complete in any order, aggregation *)
(* runs once all are collected                                             *)
(***************************************************************************)
ParInit ==
    /\ pc = "collect"
    /\ fit_files \in ParDirectories
    /\ idx = 0
    /\ pending = DOMAIN fit_files
    /\ rides = <<>>
    /\ weekly_summaries = <<>>
    /\ csv_file = <<>>
    /\ exception = <<>>
    /\ IdleStream /\ IdleEnergy /\ IdlePower

\* The analysis of file i completes and its result, if any, is collected.
CollectResult(i) ==
    /\ pc = "collect"
    /\ i \in pending
    /\ LET ride_metrics == analyze_ride(i, fit_files[i].messages)
       IN  rides' = IF ride_metrics # <<>> THEN Append(rides, ride_metrics[1]) ELSE rides
    /\ pending' = pending \ {i}
    /\ UNCHANGED <<pc, fit_files, idx, weekly_summaries, csv_file, exception>>
    /\ UNCHANGED <<streamVars, energyVars, powerVars>>

\* The aggregation of summarize_directory, once every result is in.
AggregateCollected(output_path) ==
    /\ pc = "collect"
    /\ pending = {}
    /\ LET written == write_summary_csv(WeeklySummaries(rides), output_path)
       IN  /\ written.raised = <<>>
           /\ csv_file' = written.file
    /\ weekly_summaries' = WeeklySummaries(rides)
    /\ pc' = "done"
    /\ UNCHANGED <<fit_files, idx, pending, rides, exception>>
    /\ UNCHANGED <<streamVars, energyVars, powerVars>>

\* The same, when write_summary_csv raises.
CollectedWriteRaises(output_path) ==
    /\ pc = "collect"
    /\ pending = {}
    /\ LET written == write_summary_csv(WeeklySummaries(rides), output_path)
       IN  /\ written.raised # <<>>
           /\ exception' = written.raised
    /\ pc' = "raised"
    /\ UNCHANGED <<fit_files, idx, pending, rides, weekly_summaries, csv_file>>
    /\ UNCHANGED <<streamVars, energyVars, powerVars>>

ParNext ==
    \/ \E i \in DOMAIN fit_files : CollectResult(i)
    \/ \E output_path \in OutputPaths : AggregateCollected(output_path)
    \/ \E output_path \in OutputPaths : CollectedWriteRaises(output_path)

ParSpec == ParInit /\ [][ParNext]_vars

(***************************************************************************)
(* One session stream and a reordering of it through analyze_ride: the     *)
(* Record Extractor, the test for no record, and the energy integration    *)
(***************************************************************************)
StreamInit ==
    /\ pc = "extract"
    /\ stream \in SeqsUpTo(MessageSet, MaxMsgs)
    /\ reordered \in Reorderings(stream)
    /\ extracted = <<>>
    /\ total_kj = <<>>
    /\ samples = <<>>
    /\ IdleDir /\ IdlePower

ExtractRecords ==
    /\ pc = "extract"
    /\ extracted' = <<_extract_records(stream), _extract_records(reordered)>>
    /\ pc' = "energy"
    /\ UNCHANGED <<stream, reordered, dirVars, energyVars, powerVars>>

\* What analyze_ride makes of the records extracted, as to energy: None
\* (<<>>) without calling _ride_energy_kj when there is no record, else the
\* total_kj of the metrics.
EnergyOfRide(records) ==
    IF records = <<>> THEN <<>> ELSE <<_ride_energy_kj(records)>>

\* Neither stream holds a usable message: "if not records: return None" ends
\* both analyses, and _ride_energy_kj is not called.
ReturnNone ==
    /\ pc = "energy"
    /\ extracted[1] = <<>> /\ extracted[2] = <<>>
    /\ total_kj' = <<<<>>, <<>>>>
    /\ pc' = "end"
    /\ UNCHANGED <<samples, dirVars, streamVars, powerVars>>

\* There are records: each analysis integrates those it extracted.
RideEnergy ==
    /\ pc = "energy"
    /\ ~(extracted[1] = <<>> /\ extracted[2] = <<>>)
    /\ total_kj' = <<EnergyOfRide(extracted[1]), EnergyOfRide(extracted[2])>>
    /\ pc' = "end"
    /\ UNCHANGED <<samples, dirVars, streamVars, powerVars>>

StreamNext == ExtractRecords \/ ReturnNone \/ RideEnergy

StreamSpec == StreamInit /\ [][StreamNext]_vars

(***************************************************************************)
(* _ride_energy_kj on any sequence of records                              *)
(***************************************************************************)
EnergyInit ==
    /\ pc = "integrate"
    /\ samples \in SeqsUpTo(RecordSet, MaxSamples)
    /\ total_kj = <<>>
    /\ IdleDir /\ IdleStream /\ IdlePower

Integrate ==
    /\ pc = "integrate"
    /\ total_kj' = <<_ride_energy_kj(samples)>>
    /\ pc' = "end"
    /\ UNCHANGED <<samples, dirVars, streamVars, powerVars>>

EnergyNext == Integrate

EnergySpec == EnergyInit /\ [][EnergyNext]_vars

(***************************************************************************)
(* _rolling_average and _normalized_power on a power sequence              *)
(***************************************************************************)
PowerInit ==
    /\ pc = "roll"
    /\ powers \in PowerSequences
    /\ rolling_avgs = <<>>
    /\ normalized = <<>>
    /\ IdleDir /\ IdleStream /\ IdleEnergy

RollingAverage ==
    /\ pc = "roll"
    /\ rolling_avgs' = <<_rolling_average(powers, Window)>>
    /\ pc' = "normalize"
    /\ UNCHANGED <<powers, normalized, dirVars, streamVars, energyVars>>

NormalizedPower ==
    /\ pc = "normalize"
    /\ normalized' = <<_normalized_power(powers)>>
    /\ pc' = "end"
    /\ UNCHANGED <<powers, rolling_avgs, dirVars, streamVars, energyVars>>

PowerNext == RollingAverage \/ NormalizedPower

PowerSpec == PowerInit /\ [][PowerNext]_vars

(***************************************************************************)
(* Vocabulary of the properties, stated apart from the operators above     *)
(***************************************************************************)
\* The sum of f over the finite set S of its arguments.
RECURSIVE IntSum(_, _)
IntSum(f, S) ==
    IF S = {} THEN 0
    ELSE LET x == CHOOSE y \in S : TRUE IN f[x] + IntSum(f, S \ {x})

\* The exact sum of a short sequence of reals, first to last.
RECURSIVE Total(_)
Total(values) ==
    IF values = <<>> THEN Real(0, 1) ELSE RealAdd(Head(values), Total(Tail(values)))

\* The floats of a short sequence of energies added one after the other to
\* acc, first to last.
RECURSIVE FloatFold(_, _)
FloatFold(acc, values) ==
    IF values = <<>> THEN acc
    ELSE FloatFold(FloatAdd(acc, ToFloat(Head(values))), Tail(values))

\* The float x is not negative and lies within n of its units in the last
\* place of the rational q = N/D >= 0:  |m * 2^e - N/D| <= n * 2^e, compared
\* as naturals after multiplying by D and by the power of two that clears e.
WithinUlps(x, q, n) ==
    LET up    == IF x.e > 0 THEN x.e ELSE 0
        down  == IF x.e < 0 THEN -x.e ELSE 0
        float == BigShl(BigMulSmall(x.m, q[1][2]), up)
        exact == BigShl(BigOfInt(q[1][1]), down)
        slack == BigShl(BigOfInt(n * q[1][2]), up)
    IN  /\ ~x.neg
        /\ q[2] = <<>>
        /\ q[1][1] >= 0
        /\ ~BigLess(BigAdd(exact, slack), float)
        /\ ~BigLess(BigAdd(float, slack), exact)

DigitValue(c) ==
    CASE c = "0" -> 0 [] c = "1" -> 1 [] c = "2" -> 2 [] c = "3" -> 3 [] c = "4" -> 4
      [] c = "5" -> 5 [] c = "6" -> 6 [] c = "7" -> 7 [] c = "8" -> 8 [] c = "9" -> 9

RECURSIVE Number(_)
Number(digits) ==
    IF digits = <<>> THEN 0
    ELSE 10 * Number(SubSeq(digits, 1, Len(digits) - 1)) + DigitValue(digits[Len(digits)])

\* The Week Key a week label "<year>-W<week>" names.
ParseWeek(label) ==
    LET dash == CHOOSE i \in 1..Len(label) : label[i] = "-"
    IN  <<Number(SubSeq(label, 1, dash - 1)), Number(SubSeq(label, dash + 2, Len(label)))>>

\* ISO 8601 by its definition: a week belongs to the year that holds its
\* Thursday, and weeks are counted from the one that holds the year's first
\* Thursday.
IsoWeekOf(t) ==
    LET today    == ToOrdinal(t)
        thursday == today - ((today + 6) % 7) + 3
        year     == CHOOSE y \in {t.y - 1, t.y, t.y + 1} :
                        Ymd2Ord(y, 1, 1) <= thursday /\ thursday < Ymd2Ord(y + 1, 1, 1)
    IN  <<year, ((thursday - Ymd2Ord(year, 1, 1)) \div 7) + 1>>

KeyBefore(k1, k2) == k1[1] < k2[1] \/ (k1[1] = k2[1] /\ k1[2] < k2[2])

\* The rides of the week a row is labelled with, in collection order.
RidesOfRow(row) ==
    SelectSeq(rides, LAMBDA ride : IsoWeekOf(ride.start_time) = ParseWeek(row.week))

Rows == {weekly_summaries[i] : i \in DOMAIN weekly_summaries}

HasTimestampAndPower(msg) == msg.timestamp # <<>> /\ msg.power # <<>>

\* A decodable file none of whose messages is usable.
EmptyRide(f) ==
    ~f.corrupt /\ \A i \in DOMAIN f.messages : ~HasTimestampAndPower(f.messages[i])

\* The decodable files with a usable message among the first n, as positions.
RideFiles(n) == {i \in 1..n : ~fit_files[i].corrupt /\ ~EmptyRide(fit_files[i])}

\* C1: at the end of a run, every row is the summary of the rides of its week:
\* avg_watts, avg_np and avg_noncoasting_watts are the arithmetic means over
\* those rides, total_kj is their sum (the floating-point sum of their
\* energies in the order the rides were collected, which lies within one
\* unit in the last place per ride of the exact sum), and ride_count is their
\* number.
C1_SummaryIsMeanSumCount ==
    pc = "done" =>
        \A row \in Rows :
            LET group == RidesOfRow(row)
                n     == Len(group)
            IN  /\ n >= 1
                /\ row.ride_count = n
                /\ RealMulInt(row.avg_watts, n) = Total(Field(group, "avg_watts"))
                /\ RealMulInt(row.avg_np, n) = Total(Field(group, "avg_np"))
                /\ RealMulInt(row.avg_noncoasting_watts, n)
                       = Total(Field(group, "avg_noncoasting_watts"))
                /\ row.total_kj = FloatFold(FloatZero, Field(group, "total_kj"))
                /\ WithinUlps(row.total_kj, Total(Field(group, "total_kj")), n)

\* Two rides of one week with avg_watts 150 and 170 and total_kj 300 and 350
\* were summarized as avg_watts 160, ride_count 2, total_kj exactly 650, and
\* the week after holds a ride whose normalized power is irrational.
C1_Witness ==
    /\ pc = "done"
    /\ \E row \in Rows :
          /\ Field(RidesOfRow(row), "avg_watts") = <<Real(170, 1), Real(150, 1)>>
          /\ Field(RidesOfRow(row), "total_kj") = <<Real(350, 1), Real(300, 1)>>
          /\ row.avg_watts = Real(160, 1)
          /\ row.ride_count = 2
          /\ WithinUlps(row.total_kj, Real(650, 1), 0)
    /\ \E row \in Rows :
          /\ row.ride_count = 1
          /\ row.avg_np = <<<<0, 1>>, <<<<<<1, 1>>, <<1733521, 1620000>>>>>>>>

\* C2: the rows returned are strictly ascending by Week Key, compared by ISO
\* year and then ISO week, so no Week Key labels two rows.
C2_RowsStrictlyAscending ==
    pc = "done" =>
        \A i, j \in DOMAIN weekly_summaries :
            i < j => KeyBefore(ParseWeek(weekly_summaries[i].week),
                               ParseWeek(weekly_summaries[j].week))

\* Rides analyzed in descending week order came out as two ascending rows.
C2_Witness ==
    /\ pc = "done"
    /\ Len(rides) >= 2
    /\ KeyBefore(IsoWeekOf(rides[2].start_time), IsoWeekOf(rides[1].start_time))
    /\ Len(weekly_summaries) = 2
    /\ ParseWeek(weekly_summaries[1].week) = <<2024, 5>>
    /\ ParseWeek(weekly_summaries[2].week) = <<2025, 1>>

\* C3: every row has ride_count >= 1; the weeks the rows are labelled with are
\* exactly the ISO weeks of the rides' start timestamps, one row each; and the
\* ride_counts add up to the number of rides aggregated.
C3_RowsAreTheWeeksWithRides ==
    pc = "done" =>
        /\ \A row \in Rows : row.ride_count >= 1
        /\ {ParseWeek(row.week) : row \in Rows}
               = {IsoWeekOf(rides[i].start_time) : i \in DOMAIN rides}
        /\ Len(weekly_summaries)
               = Cardinality({IsoWeekOf(rides[i].start_time) : i \in DOMAIN rides})
        /\ IntSum([i \in DOMAIN weekly_summaries |-> weekly_summaries[i].ride_count],
                  DOMAIN weekly_summaries) = Len(rides)

\* Three rides, two of them in one ISO week though in different months, one in
\* the week of the next ISO year that starts in December: two rows.
C3_Witness ==
    /\ pc = "done"
    /\ Len(rides) = 3
    /\ {rides[i].start_time : i \in DOMAIN rides}
           = {Ts(2024, 1, 29, 0), Ts(2024, 2, 2, 0), Ts(2024, 12, 30, 0)}
    /\ Len(weekly_summaries) = 2
    /\ \E row \in Rows : row.ride_count = 2
    /\ \E row \in Rows : row.ride_count = 1 /\ ParseWeek(row.week) = <<2025, 1>>

\* C5 as stated: a file whose decoding fails is left out and the run goes on,
\* so the run is never ended by it.
C5_UnreadableFileOmitted ==
    (\E i \in DOMAIN fit_files : fit_files[i].corrupt) => pc # "raised"

\* C5 amended: the decoder's failure is not caught.  The run ends at the first
\* file that does not decode, with the files after it never analyzed and no
\* summary returned or written; a summary is produced only when every file
\* decodes.
C5_DecoderFailureEndsRun ==
    /\ (pc = "raised" /\ exception = <<"FitParseError">>) =>
          /\ idx < Len(fit_files)
          /\ fit_files[idx + 1].corrupt
          /\ \A i \in 1..idx : ~fit_files[i].corrupt
    /\ pc = "raised" => ~ENABLED Next
    /\ pc = "done" => \A i \in DOMAIN fit_files : ~fit_files[i].corrupt
    /\ (\E i \in DOMAIN fit_files : fit_files[i].corrupt) =>
          /\ weekly_summaries = <<>>
          /\ csv_file = <<>>
          /\ idx < Len(fit_files)
          /\ exception \in {<<>>, <<"FitParseError">>}

\* The decoder failed on a file after a ride was collected and before a file
\* that holds a ride.
C5_Witness ==
    /\ pc = "raised"
    /\ exception = <<"FitParseError">>
    /\ rides # <<>>
    /\ idx + 2 <= Len(fit_files)
    /\ idx + 2 \in RideFiles(Len(fit_files))

\* C6: a decodable file with no usable message gives no Ride Record; it never
\* ends the run; and the rides collected are exactly those of the files passed
\* that have a usable message, in order, so such a file adds to no ride_count.
C6_EmptyRideAddsNothing ==
    /\ \A i \in DOMAIN fit_files :
          EmptyRide(fit_files[i]) => analyze_ride(i, fit_files[i].messages) = <<>>
    /\ (pc = "raised" /\ exception = <<"FitParseError">>) => ~EmptyRide(fit_files[idx + 1])
    /\ Len(rides) = Cardinality(RideFiles(idx))
    /\ {rides[k].file : k \in DOMAIN rides} = RideFiles(idx)
    /\ \A k, l \in DOMAIN rides : k < l => rides[k].file < rides[l].file
    /\ pc = "done" =>
          IntSum([i \in DOMAIN weekly_summaries |-> weekly_summaries[i].ride_count],
                 DOMAIN weekly_summaries) = Cardinality(RideFiles(Len(fit_files)))

\* A run that met a file with messages but no usable one, went on, and
\* summarized the ride of a later file.
C6_Witness ==
    /\ pc = "done"
    /\ \E i, j \in DOMAIN fit_files :
          /\ i < j
          /\ EmptyRide(fit_files[i])
          /\ fit_files[i].messages # <<>>
          /\ \E k \in DOMAIN rides : rides[k].file = j
    /\ weekly_summaries # <<>>

\* The Ride Records of the files taken one after the other in lexicographic
\* order, up to file n.
RECURSIVE SequentialRides(_)
SequentialRides(n) ==
    IF n = 0 THEN <<>>
    ELSE SequentialRides(n - 1) \o analyze_ride(n, fit_files[n].messages)

\* C10 as stated: whatever the order in which the analyses complete, once all
\* results are collected the rows returned and written, and their order, are
\* those of the sequential run over the files in lexicographic order.
C10_RowsIndependentOfCollectionOrder ==
    pc = "done" =>
        /\ weekly_summaries = WeeklySummaries(SequentialRides(Len(fit_files)))
        /\ \E output_path \in OutputPaths :
              csv_file = write_summary_csv(WeeklySummaries(SequentialRides(Len(fit_files))),
                                           output_path).file

\* C10, what holds: whatever the order in which the analyses complete, once
\* all results are collected the rows returned are as many and in the same
\* order as those of the sequential run over the files in lexicographic
\* order, with the same week labels, ride counts and averages; each total_kj
\* is the floating-point sum of the week's energies in collection order, and
\* it and the sequential run's lie within one unit in the last place per ride
\* of the exact sum; the file written holds the rows returned.
C10_RowsAgreeUpToRounding ==
    pc = "done" =>
        LET sequential == WeeklySummaries(SequentialRides(Len(fit_files)))
        IN  /\ Len(weekly_summaries) = Len(sequential)
            /\ \A i \in DOMAIN weekly_summaries :
                  LET row      == weekly_summaries[i]
                      other    == sequential[i]
                      energies == Field(RidesOfRow(row), "total_kj")
                  IN  /\ row.week = other.week
                      /\ row.ride_count = other.ride_count
                      /\ row.avg_watts = other.avg_watts
                      /\ row.avg_np = other.avg_np
                      /\ row.avg_noncoasting_watts = other.avg_noncoasting_watts
                      /\ row.total_kj = FloatFold(FloatZero, energies)
                      /\ WithinUlps(row.total_kj, Total(energies), row.ride_count)
                      /\ WithinUlps(other.total_kj, Total(energies), row.ride_count)
            /\ \E output_path \in OutputPaths :
                  csv_file = write_summary_csv(weekly_summaries, output_path).file

\* Three rides of one week collected in another order than the files', with a
\* total_kj that is not the sequential run's: 300.06 where the files' order
\* gives 300.05999999999995.
C10_Witness ==
    /\ pc = "done"
    /\ Len(rides) = 3
    /\ \E i \in DOMAIN rides : rides[i].file # i
    /\ Len(weekly_summaries) = 1
    /\ weekly_summaries[1].ride_count = 3
    /\ weekly_summaries[1].total_kj = ToFloat(Real(30006, 100))
    /\ weekly_summaries[1].total_kj
           # WeeklySummaries(SequentialRides(Len(fit_files)))[1].total_kj

\* C4 as stated: a stream and any reordering of it give the same sorted
\* Sample Sequence and the same total energy.
C4_ReorderingChangesNothing ==
    pc = "end" =>
        /\ extracted[1] = extracted[2]
        /\ total_kj[1] = total_kj[2]

\* The energy half of C4 alone: it fails too (100 W and 200 W read at one
\* instant, then a sample a second later: 0.2 kJ one way round, 0.1 kJ the other).
C4_EnergyUnderReordering == pc = "end" => total_kj[1] = total_kj[2]

\* What holds of the code: when no two usable messages share a timestamp, a
\* reordering changes neither the Sample Sequence nor the energy.
C4_DistinctTimestamps ==
    pc = "end" =>
        ((\A i, j \in DOMAIN stream :
              (i # j /\ HasTimestampAndPower(stream[i]) /\ HasTimestampAndPower(stream[j]))
                  => stream[i].timestamp # stream[j].timestamp)
         => (extracted[1] = extracted[2] /\ total_kj[1] = total_kj[2]))

\* The watts of a record, an integer in every input drawn here.
WattsOf(rec) == rec[2][1][1]

\* The joules of the pairs (i, i + 1) of samples with a positive time delta,
\* each the earlier sample's power times the delta.
LeftHoldJoules(recs) ==
    LET gain == [i \in 1..(Len(recs) - 1) |->
                    LET delta == TotalSeconds(recs[i + 1][1], recs[i][1])
                    IN  IF delta > 0 THEN WattsOf(recs[i]) * delta ELSE 0]
    IN  IntSum(gain, DOMAIN gain)

\* C7: the energy is a thousandth of the left-hold joules; pairs with a zero
\* or negative delta add nothing; the last sample's power is never used; and
\* fewer than two samples give 0.
C7_EnergyIsLeftHoldSum ==
    pc = "end" =>
        /\ total_kj[1] = Real(LeftHoldJoules(samples), 1000)
        /\ Len(samples) < 2 => total_kj[1] = Real(0, 1)
        /\ Len(samples) >= 1 =>
              \A p \in {0, 100, 200} :
                  _ride_energy_kj([samples EXCEPT ![Len(samples)][2] = FloatOf(p)])
                      = total_kj[1]
        /\ (/\ Len(samples) = 3
            /\ \A i \in 1..3 : WattsOf(samples[i]) = 100
            /\ \A i \in 1..2 : TotalSeconds(samples[i + 1][1], samples[i][1]) = 1)
           => total_kj[1] = Real(1, 5)

\* A sequence with a pair going back in time and a pair going forward, every
\* sample at power: only the forward pair was counted.
C7_Witness ==
    /\ pc = "end"
    /\ Len(samples) = 3
    /\ \A i \in 1..3 : WattsOf(samples[i]) > 0
    /\ TotalSeconds(samples[2][1], samples[1][1]) < 0
    /\ TotalSeconds(samples[3][1], samples[2][1]) = 2
    /\ WattsOf(samples[3]) # WattsOf(samples[2])
    /\ total_kj[1] = Real(WattsOf(samples[2]) * 2, 1000)

\* The sum of the watts of powers[lo..hi], counted value by value.
WattSum(lo, hi) ==
    LET readings == {powers[i][1][1] : i \in lo..hi}
        weight   == [w \in readings |-> w * Cardinality({i \in lo..hi : powers[i][1][1] = w})]
    IN  IntSum(weight, readings)

\* x is the non-negative fourth root of the rational a: a rational whose
\* fourth power is a, or the surd 1 * a^(1/4) alone.
IsFourthRootOf(x, a) ==
    \/ /\ x[2] = <<>>
       /\ x[1][1] >= 0
       /\ Real(x[1][1] * x[1][1] * x[1][1] * x[1][1],
               x[1][2] * x[1][2] * x[1][2] * x[1][2]) = a
    \/ x = <<<<0, 1>>, <<<<<<1, 1>>, a[1]>>>>>>

\* C8: below 30 samples the normalized power is the plain mean (0 for no
\* sample); from 30 samples on it is the fourth root of the mean of the fourth
\* powers of the 30-sample window means.
C8_ShortSequenceFallsBack ==
    pc = "end" =>
        LET n == Len(powers)
        IN  /\ n = 0 => normalized[1] = Real(0, 1)
            /\ (0 < n /\ n < 30) => normalized[1] = Real(WattSum(1, n), n)
            /\ n >= 30 =>
                  LET fourth == [j \in 1..(n - 29) |->
                                    WattSum(j, j + 29) * WattSum(j, j + 29)
                                    * WattSum(j, j + 29) * WattSum(j, j + 29)]
                  IN  IsFourthRootOf(normalized[1],
                          Real(IntSum(fourth, DOMAIN fourth), 810000 * (n - 29)))

\* 29 samples that are not all equal, normalized to their mean.
C8_Witness ==
    /\ pc = "end"
    /\ Len(powers) = 29
    /\ powers[1] # powers[29]
    /\ normalized[1] = Real(WattSum(1, 29), 29)
    /\ normalized[1][1][2] = 29

\* C9: the rolling average of n samples has max(0, n - 29) values, the j-th
\* (from 1) the mean of the 30 samples that end at sample j + 29.
C9_RollingAverageFullWindowsOnly ==
    pc \in {"normalize", "end"} =>
        LET n == Len(powers)
            r == rolling_avgs[1]
        IN  /\ Len(r) = (IF n - 29 > 0 THEN n - 29 ELSE 0)
            /\ \A j \in DOMAIN r : r[j] = Real(WattSum(j, j + 29), 30)

\* 31 samples with a step in them: two window means, and they differ.
C9_Witness ==
    /\ pc = "normalize"
    /\ Len(powers) = 31
    /\ Len(rolling_avgs[1]) = 2
    /\ rolling_avgs[1][1] # rolling_avgs[1][2]
    /\ powers[1] # powers[31]

====
